---- MODULE Spec2Model ----
(***************************************************************************)
(* A model of the MemMem memory lifecycle engine:                          *)
(*   src/src/vector_store.py      VectorStore     (the record collection)  *)
(*   src/src/forgetting_curve.py  ForgettingCurve (score and decay sweep)  *)
(*   src/src/memory_manager.py    MemoryManager   (store/retrieve/forget)  *)
(*   src/src/scheduler.py         MemoryScheduler (timers, manual trigger) *)
(* and of the HTTP layer and the client package:                           *)
(*   src/memorybank/config.py     MemoryBankConfig.validate                *)
(*   src/memorybank/models.py     MemoryMetadata.to_dict / from_dict       *)
(*   src/main.py                  POST /forget_memory                      *)
(*   src/memorybank/client.py     _request, forget_memory                  *)
(*                                                                         *)
(* Conventions.                                                            *)
(*  - Importance is a float in the code; here it is fixed point, in units  *)
(*    of 1/Scale (1.0 is 1000).  Products are rounded down.                *)
(*  - Time is counted in ticks, TicksPerDay ticks to the day, so that the  *)
(*    truncation of timedelta.days is visible.  A timestamp string is a    *)
(*    record [ok, t]: ok is FALSE for a string datetime.fromisoformat      *)
(*    rejects.                                                             *)
(*  - Every `await` of the code is a scheduling point: a coroutine is one  *)
(*    process whose steps are the stretches of code between two awaits.    *)
(*  - The collection (chromadb) is a function from the ids present to      *)
(*    their entries; an entry is one record, the metadata keys and the     *)
(*    document under the key document.  Update of an id that is absent     *)
(*    changes nothing and delete of an id that is absent raises nothing.   *)
(*  - The embedding of a text is a function of the text, and the index     *)
(*    returns the nearest entries first: an entry whose document is the    *)
(*    query text is at distance 0, before the entries of any other text,   *)
(*    whose order is left open.                                            *)
(***************************************************************************)
EXTENDS Integers, Sequences, FiniteSets, TLC

VARIABLES
    now,         \* datetime.now(), in ticks
    store,       \* VectorStore.collection: id -> metadata, for the ids present
    next_id,     \* how many ids uuid.uuid4() has handed out
    sweep,       \* per job slot: the decay sweep coroutine running in it
    retr,        \* per caller: the retrieve coroutine running for it
    is_running,  \* MemoryScheduler.is_running
    sched_state, \* MemoryScheduler.scheduler.state
    jobs,        \* MemoryScheduler.scheduler's job store: job id -> job
    ret,         \* the last call that returned to its caller, and its value
                 \* (for start and stop, which return nothing, what they log;
                 \* history, for start: whether it came right after a stop
                 \* that stopped the scheduler)
    forgotten_ok, \* history: the ids for which forget_memory returned True
    prune,       \* the prune_low_importance_memories coroutine of the caller
    request      \* the SDK client's call in flight: AsyncMemoryBankClient
                 \* ._request and the loop it is in

vars == <<now, store, next_id, sweep, retr, is_running, sched_state, jobs,
          ret, forgotten_ok, prune, request>>

schedvars == <<is_running, sched_state, jobs>>

----------------------------------------------------------------------------
(* Bounds of the model *)

MaxIds == 2          \* store() calls in a behaviour (an id is never reused)
MaxTicks == 1        \* clock advances in a behaviour
TicksPerDay == 2     \* resolution of the clock
MaxCallers == 1      \* retrieve calls in flight at once
MaxAccess == 1       \* retrievals of one record in a behaviour

(* Program constants, in fixed point *)

Scale == 1000              \* 1.0
InitialImportance == 1000  \* "importance": 1.0
MaxImportance == 2000      \* min(..., 2.0)
BoostPerAccess == 100      \* 0.1 * access_count
MaxBoost == 500            \* min(..., 0.5)
MinAgeDecay == 100         \* max(0.1, ...)
AgeDecayPerDay == 10       \* days_since_creation * 0.01
DefaultThreshold == 100    \* FORGETTING_THRESHOLD default "0.1"
EInvMilli == 368           \* exp(-1), in 1/Scale
ExpOverflowMilli == 709782 \* math.exp(x) raises OverflowError above 709.78

Ids == 1..MaxIds
UnknownId == 0             \* an id uuid4 never produced
Callers == 1..MaxCallers

Min(a, b) == IF a < b THEN a ELSE b
Max(a, b) == IF a > b THEN a ELSE b

----------------------------------------------------------------------------
(* Timestamps *)

TsAt(t) == [ok |-> TRUE, t |-> t]
BadTs == [ok |-> FALSE, t |-> 0]

\* (current_time - then).days: whole days, rounded towards minus infinity
DaysBetween(then, current) == (current - then) \div TicksPerDay

----------------------------------------------------------------------------
(* ForgettingCurve.calculate_retention_strength *)

\* the series of exp(-r/m) for 0 <= r < m, cut after 9 terms, in 1/Scale^2
RECURSIVE ExpSeries(_, _, _, _)
ExpSeries(r, m, k, term) ==
    IF k > 8 \/ term = 0 THEN 0
    ELSE (IF k % 2 = 0 THEN term ELSE 0 - term)
         + ExpSeries(r, m, k + 1, (term * r) \div (m * (k + 1)))

\* v * exp(-q) for a natural q, in 1/Scale
RECURSIVE TimesExpInt(_, _)
TimesExpInt(v, q) ==
    IF q = 0 \/ v = 0 THEN v ELSE TimesExpInt((v * EInvMilli) \div Scale, q - 1)

\* exp(-n/m) for n >= 0, m > 0, in 1/Scale
ExpNeg(n, m) ==
    TimesExpInt(ExpSeries(n % m, m, 0, Scale * Scale) \div Scale, n \div m)

\* math.exp(-days_since_access / strength_factor) with
\* strength_factor = 1 + access_count * 0.5 = (2 + access_count) / 2
Retention(days_since_access, access_count) ==
    IF days_since_access = 0 THEN Scale
    ELSE IF days_since_access > 0
         THEN ExpNeg(2 * days_since_access, 2 + access_count)
         ELSE LET e == ExpNeg(2 * (0 - days_since_access), 2 + access_count)
              IN  (Scale * Scale) \div Max(e, 1)

\* whether math.exp(-days_since_access / strength_factor) raises
\* OverflowError: its argument is beyond the range of a double
ExpOverflows(days_since_access, access_count) ==
    /\ days_since_access < 0
    /\ 2 * (0 - days_since_access) * Scale > ExpOverflowMilli * (2 + access_count)

\* an age factor that grows with the age of the record
AgeDecay_growing(days_since_creation) ==
    Scale + days_since_creation * AgeDecayPerDay

AgeDecay(days_since_creation) ==
    Max(MinAgeDecay, Scale - days_since_creation * AgeDecayPerDay)

\* a score that is 0.0 for a timestamp that does not parse
calculate_retention_strength_zero(timestamp, last_accessed, access_count, base_importance, current_time) ==
    IF ~timestamp.ok \/ ~last_accessed.ok THEN 0 ELSE base_importance

calculate_retention_strength(timestamp, last_accessed, access_count, base_importance, current_time) ==
    IF \/ ~timestamp.ok
       \/ ~last_accessed.ok
       \/ ExpOverflows(DaysBetween(last_accessed.t, current_time), access_count)
    THEN base_importance      \* except Exception: return base_importance
    ELSE LET days_since_creation == DaysBetween(timestamp.t, current_time)
             days_since_access == DaysBetween(last_accessed.t, current_time)
             retention == Retention(days_since_access, access_count)
             with_retention == (base_importance * retention) \div Scale
             final_importance ==
                 (with_retention * AgeDecay(days_since_creation)) \div Scale
         IN  Max(0, Min(MaxImportance, final_importance))

----------------------------------------------------------------------------
(* VectorStore: the operations on the collection *)

\* {**defaults, **metadata}: the caller's keys win
DictMerge(defaults, metadata) ==
    [k \in DOMAIN defaults \cup DOMAIN metadata |->
        IF k \in DOMAIN metadata THEN metadata[k] ELSE defaults[k]]

NoMetadata == [k \in {} |-> 0]

\* collection.add(documents=[document], ids=[id], metadatas=[m])
CollectionAdd(s, id, document, m) ==
    [i \in DOMAIN s \cup {id} |->
        IF i = id THEN DictMerge(m, [document |-> document]) ELSE s[i]]

\* a collection.update that inserts the id when the collection lacks it
CollectionUpdate_upsert(s, id, m) ==
    [i \in DOMAIN s \cup {id} |->
        IF i # id THEN s[i]
        ELSE IF id \in DOMAIN s THEN DictMerge(s[id], m) ELSE m]

\* collection.update(ids=[id], metadatas=[m]): the keys of m are written over
\* the stored metadata; an id that is not in the collection is left out
CollectionUpdate(s, id, m) ==
    IF id \in DOMAIN s
    THEN [s EXCEPT ![id] = DictMerge(s[id], m)]
    ELSE s

\* collection.delete(ids=[id]): no error when the id is absent
CollectionDelete(s, id) == [i \in DOMAIN s \ {id} |-> s[i]]

add_memory(s, id, content, metadata, current_time) ==
    LET memory_metadata ==
            DictMerge([timestamp |-> TsAt(current_time),
                       last_accessed |-> TsAt(current_time),
                       importance |-> InitialImportance,
                       access_count |-> 0],
                      metadata)
    IN  CollectionAdd(s, id, content, memory_metadata)

\* an access bump whose boost is taken from the count before the increment
AccessBump_stale_count(current_metadata, current_time) ==
    LET access_count == current_metadata.access_count + 1
        base_importance == current_metadata.importance
        access_boost == Min(BoostPerAccess * current_metadata.access_count,
                            MaxBoost)
    IN  [current_metadata EXCEPT
            !.last_accessed = TsAt(current_time),
            !.access_count = access_count,
            !.importance = Min(base_importance + access_boost, MaxImportance)]

\* an access bump that stamps the time of creation too
AccessBump_restamps(current_metadata, current_time) ==
    LET access_count == current_metadata.access_count + 1
        base_importance == current_metadata.importance
        access_boost == Min(BoostPerAccess * access_count, MaxBoost)
    IN  [current_metadata EXCEPT
            !.timestamp = TsAt(current_time),
            !.last_accessed = TsAt(current_time),
            !.access_count = access_count,
            !.importance = Min(base_importance + access_boost, MaxImportance)]

\* the metadata _update_access_info writes for a record it was handed
AccessBump(current_metadata, current_time) ==
    LET access_count == current_metadata.access_count + 1
        base_importance == current_metadata.importance
        access_boost == Min(BoostPerAccess * access_count, MaxBoost)
    IN  [current_metadata EXCEPT
            !.last_accessed = TsAt(current_time),
            !.access_count = access_count,
            !.importance = Min(base_importance + access_boost, MaxImportance)]

\* an _update_access_info that bumps every record of the collection
update_access_info_all(s, memory_id, current_metadata, current_time) ==
    [i \in DOMAIN s |-> AccessBump(s[i], current_time)]

update_access_info(s, memory_id, current_metadata, current_time) ==
    CollectionUpdate(s, memory_id, AccessBump(current_metadata, current_time))

\* a delete_memory whose collection.delete removes nothing
delete_memory_keeps(s, memory_id) ==
    [store |-> s, result |-> TRUE]

\* delete_memory: [store, result]; it returns True unless delete raises
delete_memory(s, memory_id) ==
    [store |-> CollectionDelete(s, memory_id), result |-> TRUE]

\* an update_memory_importance that keeps the larger of the stored and the
\* new importance
update_memory_importance_merging(s, memory_id, new_importance) ==
    IF memory_id \notin DOMAIN s
    THEN [store |-> s, result |-> FALSE]
    ELSE [store |-> CollectionUpdate(s, memory_id,
                        [s[memory_id] EXCEPT
                            !.importance = Max(@, new_importance)]),
          result |-> TRUE]

\* an update_memory_importance that does not look whether the id is there
update_memory_importance_blind(s, memory_id, new_importance) ==
    [store |-> [i \in DOMAIN s \cup {memory_id} |->
                   IF i = memory_id THEN [importance |-> new_importance]
                   ELSE s[i]],
     result |-> TRUE]

\* update_memory_importance: [store, result]
update_memory_importance(s, memory_id, new_importance) ==
    IF memory_id \notin DOMAIN s
    THEN [store |-> s, result |-> FALSE]
    ELSE [store |-> CollectionUpdate(s, memory_id,
                        [s[memory_id] EXCEPT !.importance = new_importance]),
          result |-> TRUE]

\* a filter that lets every entry through
Matches_any(metadata, where) == TRUE

\* where: exact match on every key given
Matches(metadata, where) ==
    \A k \in DOMAIN where : k \in DOMAIN metadata /\ metadata[k] = where[k]

\* the sequences of distinct elements of S of length n
RECURSIVE Arrangements(_, _)
Arrangements(S, n) ==
    IF n = 0 THEN {<<>>}
    ELSE UNION {{<<x>> \o t : t \in Arrangements(S \ {x}, n - 1)} : x \in S}

\* an index that returns matching entries in any order, near or far
NearestFirst_unranked(s, query, matching, a) == TRUE

\* whether a, a sequence of ids out of matching, is an answer of the index to
\* the query: the entries whose document is the query text are at distance 0;
\* they come before all others and none of them is left out for a farther one
NearestFirst(s, query, matching, a) ==
    LET Exact(i) == s[i].document = query
        chosen == {a[k] : k \in 1..Len(a)}
    IN  /\ \A j, k \in 1..Len(a) : (j < k /\ Exact(a[k])) => Exact(a[j])
        /\ \A i \in matching \ chosen :
              Exact(i) => \A k \in 1..Len(a) : Exact(a[k])

\* collection.query(query_embeddings=[embed(query)], n_results=top_k,
\* where=where): the top_k nearest of the matching entries, nearest first; the
\* distance between different texts is opaque, so every choice and every
\* order of them that NearestFirst allows is a possible answer
QueryResults(s, query, top_k, where) ==
    LET matching == {i \in DOMAIN s : Matches(s[i], where)}
    IN  {[k \in 1..Len(a) |-> [memory_id |-> a[k], metadata |-> s[a[k]]]] :
            a \in {b \in Arrangements(matching,
                                      Min(top_k, Cardinality(matching))) :
                      NearestFirst(s, query, matching, b)}}

\* collection.query validates n_results before it searches: a number of
\* results that is zero or negative is refused with an exception
ValidNResults(n_results) == n_results > 0

\* collection.get(): every record, in insertion order (ids are handed out in
\* increasing order)
RECURSIVE GetAll(_, _)
GetAll(s, from) ==
    IF from > MaxIds THEN <<>>
    ELSE (IF from \in DOMAIN s
          THEN <<[memory_id |-> from, metadata |-> s[from]]>> ELSE <<>>)
         \o GetAll(s, from + 1)

get_all_memories(s) == GetAll(s, 1)

----------------------------------------------------------------------------
(* The processes *)

JobIds == {"forgetting_curve_job", "memory_maintenance_job",
           "initial_forgetting_job"}
\* a decay sweep runs in the slot of the timer job that started it, or in the
\* slot of the caller of run_forgetting_curve_now
Slots == JobIds \cup {"manual"}

\* A decay sweep.  todo is what is left of all_memories, the entry the loop
\* is at first; score is new_importance for that entry; updated and forgotten
\* are updated_count and forgotten_count.  History: kept and gone are the ids
\* the loop decided to update and to delete, alone says that no other process
\* wrote to the collection while the loop ran; loaded is len(all_memories),
\* removed and persisted count the records the loop really deleted and the
\* records whose importance it really wrote; failed says which storage call
\* of the sweep raised, if one did ("no", "load" or "write").
IdleSweep == [pc |-> "idle", thr |-> 0, todo |-> <<>>, score |-> 0,
              updated |-> 0, forgotten |-> 0,
              kept |-> {}, gone |-> {}, alone |-> TRUE,
              loaded |-> 0, removed |-> 0, persisted |-> 0, failed |-> "no"]

\* A retrieve.  todo is what is left of the query's results, the entry the
\* loop is at first; memories are the ids of the list built so far.
\* History: forgot_at_call is forgotten_ok as it was when the call was made.
IdleRetrieve == [pc |-> "idle", query |-> "", top_k |-> 0, where |-> NoMetadata,
                 todo |-> <<>>, memories |-> <<>>, forgot_at_call |-> {}]

\* A prune.  thr is threshold; todo is what is left of all_memories, the
\* next record whose importance in the snapshot is below the threshold first
\* (the loop passes the other records without an await); deleted_count as
\* in the code.  History: removed counts the records the loop really deleted.
IdlePrune == [pc |-> "idle", thr |-> 0, todo |-> <<>>, deleted_count |-> 0,
              removed |-> 0]

\* request: the call of client.forget_memory in flight.  attempt is the loop
\* variable of _request.  History: attempts counts the calls of
\* self._client.request, waits lists the arguments of asyncio.sleep.
IdleRequest == [pc |-> "idle", memory_id |-> 0, key_ok |-> TRUE,
                max_retries |-> 0, attempt |-> 0, attempts |-> 0,
                waits |-> <<>>]

\* history: a sweep in its loop was not alone once another process wrote
Disturb(sw, self) ==
    [s \in Slots |->
        IF s # self /\ sw[s].pc = "loop"
        THEN [sw[s] EXCEPT !.alone = FALSE] ELSE sw[s]]

Init ==
    /\ now = 0
    /\ store = NoMetadata
    /\ next_id = 0
    /\ sweep = [s \in Slots |-> IdleSweep]
    /\ retr = [c \in Callers |-> IdleRetrieve]
    /\ is_running = FALSE
    /\ sched_state = "stopped"
    /\ jobs = NoMetadata
    /\ ret = [op |-> "none"]
    /\ forgotten_ok = {}
    /\ prune = IdlePrune
    /\ request = IdleRequest

\* time passes
Tick ==
    /\ now < MaxTicks
    /\ now' = now + 1
    /\ UNCHANGED <<store, next_id, sweep, retr, schedvars, forgotten_ok,
                   ret, prune, request>>

----------------------------------------------------------------------------
(* MemoryManager: store, retrieve, forget, updateImportance *)

\* an exception that reaches the caller; what names the call that raised it
Raised(what) == [raised |-> what]

\* a store_memory that falls back silently when a call of its fails
store_memory_fallback(s, id, content, metadata, current_time, fault) ==
    IF fault = "none"
    THEN [store |-> add_memory(s, id, content, metadata, current_time),
          result |-> [memory_id |-> id]]
    ELSE [store |-> s, result |-> [memory_id |-> id]]

\* MemoryManager.store_memory: [store, result].  fault names the call that
\* raises, if one does: "embed" (embedding_client.embed) or "insert"
\* (collection.add, which then adds nothing); both except clauses re-raise
store_memory(s, id, content, metadata, current_time, fault) ==
    IF fault = "none"
    THEN [store |-> add_memory(s, id, content, metadata, current_time),
          result |-> [memory_id |-> id]]
    ELSE [store |-> s, result |-> Raised(fault)]

\* store_memory(content, metadata): embed, then add_memory under a fresh id
Store(content, metadata) ==
    /\ next_id < MaxIds
    /\ next_id' = next_id + 1
    /\ store' = store_memory(store, next_id + 1, content, metadata, now,
                             "none").store
    /\ sweep' = Disturb(sweep, "none")
    /\ UNCHANGED <<now, retr, schedvars, forgotten_ok,
                   ret, prune, request>>

\* store_memory(content, metadata) when the embedding or the insertion raises:
\* the caller gets the exception (the uuid of a failed insertion is not used
\* again, as no uuid is)
StoreFails(content, metadata, fault) ==
    /\ next_id < MaxIds
    /\ LET r == store_memory(store, next_id + 1, content, metadata, now, fault)
       IN  /\ store' = r.store
           /\ ret' = [op |-> "store_memory", value |-> r.result]
    /\ UNCHANGED <<now, next_id, sweep, retr, schedvars, forgotten_ok,
                   prune, request>>

\* retrieve_memory is called: it awaits the embedding of the query
RetrieveCall(c, query, top_k, where) ==
    /\ retr[c].pc = "idle"
    /\ \A i \in DOMAIN store : store[i].access_count < MaxAccess
    /\ retr' = [retr EXCEPT ![c] = [IdleRetrieve EXCEPT
                    !.pc = "embed", !.query = query,
                    !.top_k = top_k, !.where = where,
                    !.forgot_at_call = forgotten_ok]]
    /\ UNCHANGED <<now, store, next_id, sweep, schedvars, forgotten_ok,
                   ret, prune, request>>

\* query_memories up to its first await: collection.query, and the first
\* result appended to the list
RetrieveQuery(c) ==
    /\ retr[c].pc = "embed"
    /\ ValidNResults(retr[c].top_k)
    /\ \E results \in QueryResults(store, retr[c].query, retr[c].top_k,
                                    retr[c].where) :
         retr' = [retr EXCEPT ![c] =
                    IF Len(results) = 0 THEN [@ EXCEPT !.pc = "done"]
                    ELSE [@ EXCEPT !.pc = "bump", !.todo = results,
                             !.memories = <<results[1].memory_id>>]]
    /\ UNCHANGED <<now, store, next_id, sweep, schedvars, forgotten_ok,
                   ret, prune, request>>

\* the embedding of the query raises, or collection.query does: both except
\* clauses re-raise, and the caller gets the exception
RetrieveRaises(c, fault) ==
    /\ retr[c].pc = "embed"
    /\ retr' = [retr EXCEPT ![c] = IdleRetrieve]
    /\ ret' = [op |-> "retrieve_memory", value |-> Raised(fault)]
    /\ UNCHANGED <<now, store, next_id, sweep, schedvars, forgotten_ok,
                   prune, request>>

\* collection.query refuses n_results = top_k: query_memories logs the error
\* and re-raises, retrieve_memory does the same, and the caller gets the
\* exception
RetrieveRejected(c) ==
    /\ retr[c].pc = "embed"
    /\ ~ValidNResults(retr[c].top_k)
    /\ retr' = [retr EXCEPT ![c] = IdleRetrieve]
    /\ ret' = [op |-> "retrieve_memory", value |-> Raised("query")]
    /\ UNCHANGED <<now, store, next_id, sweep, schedvars, forgotten_ok,
                   prune, request>>

\* await self._update_access_info(memory_id, metadata) for the result the
\* loop is at, and the next result appended to the list
RetrieveBump(c) ==
    /\ retr[c].pc = "bump"
    /\ LET r == retr[c]
           hit == Head(r.todo)
           rest == Tail(r.todo)
       IN  /\ store' = update_access_info(store, hit.memory_id, hit.metadata,
                                          now)
           /\ retr' = [retr EXCEPT ![c] =
                    IF rest = <<>> THEN [@ EXCEPT !.pc = "done", !.todo = rest]
                    ELSE [@ EXCEPT !.todo = rest,
                             !.memories = Append(@, rest[1].memory_id)]]
    /\ sweep' = Disturb(sweep, "none")
    /\ UNCHANGED <<now, next_id, schedvars, forgotten_ok,
                   ret, prune, request>>

\* retrieve_memory returns its list
RetrieveReturn(c) ==
    /\ retr[c].pc = "done"
    /\ retr' = [retr EXCEPT ![c] = IdleRetrieve]
    /\ UNCHANGED <<now, store, next_id, sweep, schedvars, forgotten_ok,
                   ret, prune, request>>

\* forget_memory(memory_id)
Forget(memory_id) ==
    /\ LET r == delete_memory(store, memory_id)
       IN  /\ store' = r.store
           /\ ret' = [op |-> "forget_memory", value |-> r.result]
           /\ forgotten_ok' = IF r.result THEN forgotten_ok \cup {memory_id}
                              ELSE forgotten_ok
    /\ sweep' = Disturb(sweep, "none")
    /\ UNCHANGED <<now, next_id, retr, schedvars, prune, request>>

\* MemoryManager.update_memory_importance(memory_id, importance)
UpdateImportance(memory_id, importance) ==
    /\ LET r == update_memory_importance(store, memory_id, importance)
       IN  /\ store' = r.store
           /\ ret' = [op |-> "update_memory_importance", value |-> r.result]
    /\ sweep' = Disturb(sweep, "none")
    /\ UNCHANGED <<now, next_id, retr, schedvars, forgotten_ok,
                   prune, request>>

----------------------------------------------------------------------------
(* MemoryManager.prune_memories: VectorStore.prune_low_importance_memories *)

\* if metadata.get("importance", 1.0) < threshold
BelowPruneThreshold(importance, threshold) == importance < threshold

\* the entries of the snapshot the loop will delete, in the snapshot's order
RECURSIVE ToPrune(_, _)
ToPrune(all_memories, threshold) ==
    IF all_memories = <<>> THEN <<>>
    ELSE (IF BelowPruneThreshold(Head(all_memories).metadata.importance,
                                 threshold)
          THEN <<Head(all_memories)>> ELSE <<>>)
         \o ToPrune(Tail(all_memories), threshold)

\* prune_memories(importance_threshold) is called
PruneCall(importance_threshold) ==
    /\ prune.pc = "idle"
    /\ prune' = [IdlePrune EXCEPT !.pc = "load", !.thr = importance_threshold]
    /\ UNCHANGED <<now, store, next_id, sweep, retr, schedvars, forgotten_ok,
                   ret, request>>

\* all_memories = await self.get_all_memories(), and the loop up to its first
\* await delete_memory
PruneLoad ==
    /\ prune.pc = "load"
    /\ LET todo == ToPrune(get_all_memories(store), prune.thr)
       IN  prune' = [prune EXCEPT !.todo = todo,
                                  !.pc = IF todo = <<>> THEN "done" ELSE "loop"]
    /\ UNCHANGED <<now, store, next_id, sweep, retr, schedvars, forgotten_ok,
                   ret, request>>

\* get_all_memories raises: the except clause logs the error and returns 0
PruneLoadFails ==
    /\ prune.pc = "load"
    /\ prune' = [prune EXCEPT !.pc = "done"]
    /\ UNCHANGED <<now, store, next_id, sweep, retr, schedvars, forgotten_ok,
                   ret, request>>

\* await self.delete_memory(memory_id); deleted_count += 1; and the loop up to
\* its next await
PruneStep ==
    /\ prune.pc = "loop"
    /\ LET memory_id == Head(prune.todo).memory_id
           rest == Tail(prune.todo)
       IN  /\ store' = delete_memory(store, memory_id).store
           /\ prune' = [prune EXCEPT
                 !.deleted_count = @ + 1,
                 !.removed = IF memory_id \in DOMAIN store THEN @ + 1 ELSE @,
                 !.todo = rest,
                 !.pc = IF rest = <<>> THEN "done" ELSE "loop"]
    /\ sweep' = Disturb(sweep, "none")
    /\ UNCHANGED <<now, next_id, retr, schedvars, forgotten_ok, ret, request>>

\* collection.delete raises: delete_memory logs the error and returns False,
\* which the loop does not look at, so it counts the record and goes on
PruneStepFails ==
    /\ prune.pc = "loop"
    /\ LET rest == Tail(prune.todo)
       IN  prune' = [prune EXCEPT
                 !.deleted_count = @ + 1,
                 !.todo = rest,
                 !.pc = IF rest = <<>> THEN "done" ELSE "loop"]
    /\ UNCHANGED <<now, store, next_id, sweep, retr, schedvars, forgotten_ok,
                   ret, request>>

\* return deleted_count
PruneReturn ==
    /\ prune.pc = "done"
    /\ prune' = IdlePrune
    /\ ret' = [op |-> "prune_memories",
               value |-> [deleted_count |-> prune.deleted_count]]
    /\ UNCHANGED <<now, store, next_id, sweep, retr, schedvars,
                   forgotten_ok, request>>

----------------------------------------------------------------------------
(* ForgettingCurve.apply_forgetting_curve, run by apply_forgetting_curve_job *)

\* a score that starts from 1.0 whatever importance is stored
NewImportance_from_initial(entry, current_time) ==
    calculate_retention_strength(entry.metadata.timestamp,
                                 entry.metadata.last_accessed,
                                 entry.metadata.access_count,
                                 InitialImportance, current_time)

\* new_importance for one entry of the snapshot
NewImportance(entry, current_time) ==
    calculate_retention_strength(entry.metadata.timestamp,
                                 entry.metadata.last_accessed,
                                 entry.metadata.access_count,
                                 entry.metadata.importance, current_time)

\* the comparison turned round: the records above the threshold go
BelowThreshold_reversed(new_importance, decay_threshold) ==
    new_importance > decay_threshold

\* the comparison made inclusive: a score equal to the threshold goes too
BelowThreshold_inclusive(new_importance, decay_threshold) ==
    new_importance <= decay_threshold

\* if new_importance < decay_threshold
BelowThreshold(new_importance, decay_threshold) ==
    new_importance < decay_threshold

\* where a sweep goes when its loop is over
AfterSweep(s) == IF s = "memory_maintenance_job" THEN "stats_after" ELSE "done"

\* apply_forgetting_curve_job starts in slot s with FORGETTING_THRESHOLD = thr
BeginJob(s, thr) ==
    [IdleSweep EXCEPT
        !.pc = IF s = "memory_maintenance_job" THEN "stats_before" ELSE "load",
        !.thr = thr]

\* memory_maintenance_job: await get_memory_stats(), before and after
MaintenanceStats(s) ==
    /\ sweep[s].pc \in {"stats_before", "stats_after"}
    /\ sweep' = [sweep EXCEPT ![s].pc =
                    IF sweep[s].pc = "stats_before" THEN "load" ELSE "done"]
    /\ UNCHANGED <<now, store, next_id, retr, schedvars, forgotten_ok,
                   ret, prune, request>>

\* all_memories = await get_all_memories(), and the score of the first entry
SweepLoad(s) ==
    /\ sweep[s].pc = "load"
    /\ LET all_memories == get_all_memories(store)
       IN  sweep' = [sweep EXCEPT ![s] =
             IF Len(all_memories) = 0
             THEN [@ EXCEPT !.pc = AfterSweep(s)]
             ELSE [@ EXCEPT !.pc = "loop", !.todo = all_memories,
                       !.loaded = Len(all_memories),
                       !.score = NewImportance(all_memories[1], now)]]
    /\ UNCHANGED <<now, store, next_id, retr, schedvars, forgotten_ok,
                   ret, prune, request>>

\* await delete_memory(id) or await update_memory_importance(id, new), then
\* the score of the next entry
SweepStep(s) ==
    /\ sweep[s].pc = "loop"
    /\ LET w == sweep[s]
           memory_id == Head(w.todo).memory_id
           new_importance == w.score
           forget == BelowThreshold(new_importance, w.thr)
           rest == Tail(w.todo)
           present == memory_id \in DOMAIN store
       IN  /\ store' = IF forget
                       THEN delete_memory(store, memory_id).store
                       ELSE update_memory_importance(store, memory_id,
                                                     new_importance).store
           /\ sweep' = [Disturb(sweep, s) EXCEPT ![s] = [w EXCEPT
                 !.forgotten = IF forget THEN @ + 1 ELSE @,
                 !.updated = IF forget THEN @ ELSE @ + 1,
                 !.removed = IF forget /\ present THEN @ + 1 ELSE @,
                 !.persisted = IF ~forget /\ present THEN @ + 1 ELSE @,
                 !.gone = IF forget THEN @ \cup {memory_id} ELSE @,
                 !.kept = IF forget THEN @ ELSE @ \cup {memory_id},
                 !.todo = rest,
                 !.score = IF rest = <<>> THEN 0
                           ELSE NewImportance(rest[1], now),
                 !.pc = IF rest = <<>> THEN AfterSweep(s) ELSE "loop"]]
    /\ UNCHANGED <<now, next_id, retr, schedvars, forgotten_ok,
                   ret, prune, request>>

\* get_all_memories raises: the sweep's except clause logs the error and
\* returns the zero result
SweepLoadFails(s) ==
    /\ sweep[s].pc = "load"
    /\ sweep' = [sweep EXCEPT ![s] =
                    [@ EXCEPT !.pc = AfterSweep(s), !.failed = "load"]]
    /\ UNCHANGED <<now, store, next_id, retr, schedvars, forgotten_ok,
                   ret, prune, request>>

\* the storage call of delete_memory or of update_memory_importance raises:
\* their except clauses log the error and return False, which the loop does
\* not look at, so it counts the record and goes on
SweepStepFails(s) ==
    /\ sweep[s].pc = "loop"
    /\ LET w == sweep[s]
           memory_id == Head(w.todo).memory_id
           forget == BelowThreshold(w.score, w.thr)
           rest == Tail(w.todo)
       IN  sweep' = [sweep EXCEPT ![s] = [w EXCEPT
                 !.forgotten = IF forget THEN @ + 1 ELSE @,
                 !.updated = IF forget THEN @ ELSE @ + 1,
                 !.gone = IF forget THEN @ \cup {memory_id} ELSE @,
                 !.kept = IF forget THEN @ ELSE @ \cup {memory_id},
                 !.failed = "write",
                 !.todo = rest,
                 !.score = IF rest = <<>> THEN 0
                           ELSE NewImportance(rest[1], now),
                 !.pc = IF rest = <<>> THEN AfterSweep(s) ELSE "loop"]]
    /\ UNCHANGED <<now, store, next_id, retr, schedvars, forgotten_ok,
                   ret, prune, request>>

\* Python's None
None == [type |-> "NoneType"]

\* the dict apply_forgetting_curve returns: the counts or, when a call of the
\* sweep raised into its except clause, the zero result with the "error" key
SweepResult(w) ==
    IF w.failed = "load"
    THEN [error |-> TRUE, updated |-> 0, forgotten |-> 0, total_processed |-> 0]
    ELSE [error |-> FALSE, updated |-> w.updated, forgotten |-> w.forgotten,
          total_processed |-> w.updated + w.forgotten]

\* what apply_forgetting_curve_job hands back: it logs result and has no
\* return statement
JobReturn(result) == None

\* the job returns; run_forgetting_curve_now hands what the job returned to
\* its caller; a timer job has no caller
SweepReturn(s) ==
    /\ sweep[s].pc = "done"
    /\ sweep' = [sweep EXCEPT ![s] = IdleSweep]
    /\ ret' = IF s = "manual"
              THEN [op |-> "run_forgetting_curve_now",
                    value |-> JobReturn(SweepResult(sweep[s]))]
              ELSE ret
    /\ UNCHANGED <<now, store, next_id, retr, schedvars, forgotten_ok,
                   prune, request>>

\* run_forgetting_curve_now()
RunForgettingCurveNow(thr) ==
    /\ sweep["manual"].pc = "idle"
    /\ sweep' = [sweep EXCEPT !["manual"] = BeginJob("manual", thr)]
    /\ UNCHANGED <<now, store, next_id, retr, schedvars, forgotten_ok,
                   ret, prune, request>>

----------------------------------------------------------------------------
(* MemoryScheduler.  The AsyncIOScheduler is its state, its job store (job  *)
(* id -> job) and, per job, the running instance, which is the sweep in the *)
(* job's slot.                                                              *)

JobName(id) ==
    CASE id = "forgetting_curve_job" -> "Apply Forgetting Curve"
      [] id = "memory_maintenance_job" -> "Memory Maintenance"
      [] id = "initial_forgetting_job" -> "Initial Forgetting Curve"

\* IntervalTrigger(hours=h), IntervalTrigger(minutes=1)
HoursTrigger(h) == [unit |-> "hours", every |-> h]
MinutesTrigger(m) == [unit |-> "minutes", every |-> m]

NewJob(id, trigger) == [name |-> JobName(id), trigger |-> trigger]

\* scheduler.add_job(..., id=id, replace_existing=replace): [jobs, raised].
\* A job whose id is taken is replaced or, without replace_existing, refused
\* with ConflictingIdError.
AddJob(js, id, trigger, replace) ==
    IF id \in DOMAIN js /\ ~replace
    THEN [jobs |-> js, raised |-> TRUE]
    ELSE [jobs |-> [j \in DOMAIN js \cup {id} |->
                       IF j = id THEN NewJob(id, trigger) ELSE js[j]],
          raised |-> FALSE]

\* the body of start_scheduler's try block: [jobs, state, is_running, log]
StartBody(js, state, running, forgetting_interval_hours, maintenance_interval_hours) ==
    LET a1 == AddJob(js, "forgetting_curve_job",
                     HoursTrigger(forgetting_interval_hours), TRUE)
        a2 == AddJob(a1.jobs, "memory_maintenance_job",
                     HoursTrigger(maintenance_interval_hours), TRUE)
        a3 == AddJob(a2.jobs, "initial_forgetting_job", MinutesTrigger(1),
                     FALSE)
    IN  IF a3.raised \/ state # "stopped"
        \* ConflictingIdError, or SchedulerAlreadyRunningError from start():
        \* logged, is_running is not set
        THEN [jobs |-> a3.jobs, state |-> state, is_running |-> running,
              log |-> "Error starting scheduler"]
        ELSE [jobs |-> a3.jobs, state |-> "running", is_running |-> TRUE,
              log |-> "Memory scheduler started"]

\* a start_scheduler without the is_running check
start_scheduler_unguarded(forgetting_interval_hours, maintenance_interval_hours) ==
    StartBody(jobs, sched_state, is_running, forgetting_interval_hours,
              maintenance_interval_hours)

\* start_scheduler(forgetting_interval_hours, maintenance_interval_hours)
start_scheduler(forgetting_interval_hours, maintenance_interval_hours) ==
    IF is_running
    THEN [jobs |-> jobs, state |-> sched_state, is_running |-> is_running,
          log |-> "Scheduler is already running"]
    ELSE StartBody(jobs, sched_state, is_running, forgetting_interval_hours,
                   maintenance_interval_hours)

\* start_scheduler when self.scheduler.start() raises: the three add_job
\* calls have been made, the except clause logs the error, and is_running
\* and the state of the scheduler stay as they were
start_scheduler_fails(forgetting_interval_hours, maintenance_interval_hours) ==
    IF is_running
    THEN [jobs |-> jobs, state |-> sched_state, is_running |-> is_running,
          log |-> "Scheduler is already running"]
    ELSE [StartBody(jobs, sched_state, is_running, forgetting_interval_hours,
                    maintenance_interval_hours)
            EXCEPT !.state = sched_state, !.is_running = is_running,
                   !.log = "Error starting scheduler"]

\* a stop_scheduler that clears is_running and leaves the timers scheduled
stop_scheduler_no_shutdown ==
    [jobs |-> jobs, state |-> sched_state, is_running |-> FALSE,
     instances |-> sweep,
     log |-> IF is_running THEN "Memory scheduler stopped"
             ELSE "Scheduler is not running"]

\* a stop_scheduler whose shutdown leaves the jobs in the job store
stop_scheduler_keeps_jobs ==
    IF ~is_running
    THEN [jobs |-> jobs, state |-> sched_state, is_running |-> is_running,
          instances |-> sweep, log |-> "Scheduler is not running"]
    ELSE [jobs |-> jobs, state |-> "stopped", is_running |-> FALSE,
          instances |-> sweep, log |-> "Memory scheduler stopped"]

\* stop_scheduler(): [jobs, state, is_running, instances, log].
\* shutdown(wait=False) empties the job store and cancels the timers; it does
\* not wait for the running job instances, which go on.  On a scheduler that
\* is not running it raises SchedulerNotRunningError, which is logged.
stop_scheduler ==
    IF ~is_running
    THEN [jobs |-> jobs, state |-> sched_state, is_running |-> is_running,
          instances |-> sweep, log |-> "Scheduler is not running"]
    ELSE IF sched_state # "running"
    THEN [jobs |-> jobs, state |-> sched_state, is_running |-> is_running,
          instances |-> sweep, log |-> "Error stopping scheduler"]
    ELSE [jobs |-> NoMetadata, state |-> "stopped", is_running |-> FALSE,
          instances |-> sweep, log |-> "Memory scheduler stopped"]

\* a get_scheduler_status that does not look at is_running
get_scheduler_status_unguarded ==
    [status |-> "running",
     jobs |-> {[id |-> j, name |-> jobs[j].name,
                trigger |-> jobs[j].trigger] : j \in DOMAIN jobs},
     scheduler_state |-> sched_state]

\* get_scheduler_status()
get_scheduler_status ==
    IF ~is_running
    THEN [status |-> "stopped", jobs |-> {}]
    ELSE [status |-> "running",
          jobs |-> {[id |-> j, name |-> jobs[j].name,
                     trigger |-> jobs[j].trigger] : j \in DOMAIN jobs},
          scheduler_state |-> sched_state]

\* history: the last call that returned was a stop() that stopped the
\* scheduler
AfterStop ==
    /\ ret.op = "stop_scheduler"
    /\ ret.value = "Memory scheduler stopped"

StartScheduler(fh, mh) ==
    /\ LET r == start_scheduler(fh, mh)
       IN  /\ jobs' = r.jobs
           /\ sched_state' = r.state
           /\ is_running' = r.is_running
           /\ ret' = [op |-> "start_scheduler", value |-> r.log,
                      after_stop |-> AfterStop]
    /\ UNCHANGED <<now, store, next_id, sweep, retr, forgotten_ok,
                   prune, request>>

\* start_scheduler is called and self.scheduler.start() raises
StartSchedulerFails(fh, mh) ==
    /\ ~is_running
    /\ LET r == start_scheduler_fails(fh, mh)
       IN  /\ jobs' = r.jobs
           /\ sched_state' = r.state
           /\ is_running' = r.is_running
           /\ ret' = [op |-> "start_scheduler", value |-> r.log,
                      after_stop |-> AfterStop]
    /\ UNCHANGED <<now, store, next_id, sweep, retr, forgotten_ok,
                   prune, request>>

StopScheduler ==
    /\ LET r == stop_scheduler
       IN  /\ jobs' = r.jobs
           /\ sched_state' = r.state
           /\ is_running' = r.is_running
           /\ sweep' = r.instances
           /\ ret' = [op |-> "stop_scheduler", value |-> r.log]
    /\ UNCHANGED <<now, store, next_id, retr, forgotten_ok, prune, request>>

GetSchedulerStatus ==
    /\ ret' = [op |-> "get_scheduler_status", value |-> get_scheduler_status]
    /\ UNCHANGED <<now, store, next_id, sweep, retr, schedvars, forgotten_ok,
                   prune, request>>

\* whether the scheduler lets a due run of the job start: it runs jobs only
\* while it is running, and no more than max_instances = 1 of each job
MayRun(id) ==
    /\ sched_state = "running"
    /\ id \in DOMAIN jobs
    /\ sweep[id].pc = "idle"

\* whether the trigger has a fire time after a run: an IntervalTrigger always
\* has, a trigger that fires once has none
Recurs(trigger) == trigger.unit \in {"hours", "minutes"}

\* the job store after a run of job id: the scheduler removes a job whose
\* trigger has no next fire time
AfterRun(js, id) ==
    IF Recurs(js[id].trigger) THEN js
    ELSE [j \in DOMAIN js \ {id} |-> js[j]]

\* the timer of job id fires and the job starts, FORGETTING_THRESHOLD = thr
TimerFire(id, thr) ==
    /\ MayRun(id)
    /\ sweep' = [sweep EXCEPT ![id] = BeginJob(id, thr)]
    /\ jobs' = AfterRun(jobs, id)
    /\ UNCHANGED <<now, store, next_id, retr, is_running, sched_state,
                   forgotten_ok, ret, prune, request>>

----------------------------------------------------------------------------
(* memorybank.config.MemoryBankConfig.  An Optional[str] key is "" when it   *)
(* is None or empty: validate only asks whether it is falsy.                 *)
(* importance_threshold is in 1/Scale.                                       *)

\* MemoryBankConfig(): the defaults of the dataclass fields validate reads
DefaultConfig ==
    [api_key |-> "", llm_provider |-> "claude", openai_api_key |-> "",
     anthropic_api_key |-> "", google_api_key |-> "",
     embedding_provider |-> "openai", default_top_k |-> 5,
     importance_threshold |-> DefaultThreshold,
     enable_local_storage |-> FALSE]

ConfigurationError(message) == Raised(message)

\* MemoryBankConfig.validate(): the first rule that is broken raises; None
\* when none is
validate(self) ==
    IF ~self.enable_local_storage /\ self.api_key = ""
    THEN ConfigurationError("API key is required when not using local storage")
    ELSE IF self.llm_provider = "openai" /\ self.openai_api_key = ""
    THEN ConfigurationError("OpenAI API key is required for OpenAI LLM provider")
    ELSE IF self.llm_provider = "claude" /\ self.anthropic_api_key = ""
    THEN ConfigurationError("Anthropic API key is required for Claude LLM provider")
    ELSE IF self.llm_provider = "gemini" /\ self.google_api_key = ""
    THEN ConfigurationError("Google API key is required for Gemini LLM provider")
    ELSE IF self.embedding_provider = "openai" /\ self.openai_api_key = ""
    THEN ConfigurationError("OpenAI API key is required for OpenAI embedding provider")
    ELSE IF self.default_top_k < 1
    THEN ConfigurationError("default_top_k must be at least 1")
    ELSE IF ~(0 <= self.importance_threshold /\ self.importance_threshold <= Scale)
    THEN ConfigurationError("importance_threshold must be between 0 and 1")
    ELSE None

\* config.validate() is called on a configuration
Validate(config) ==
    /\ ret' = [op |-> "validate", config |-> config, value |-> validate(config)]
    /\ UNCHANGED <<now, store, next_id, sweep, retr, schedvars, forgotten_ok,
                   prune, request>>

----------------------------------------------------------------------------
(* memorybank.models.MemoryMetadata.  A Python value is a record that names  *)
(* its type; a dict is a function from its keys to values.                   *)

PyStr(s) == [type |-> "str", s |-> s]
PyInt(n) == [type |-> "int", n |-> n]
PyList(items) == [type |-> "list", items |-> items]

\* bool(v), for the values above: None, "", [] and 0 are false
Truthy(v) == v \notin {None, PyStr(""), PyList(<<>>), PyInt(0)}

KnownFields == {"user_id", "session_id", "category", "tags"}

\* dict.get(key, default)
DictGet(data, key, default) == IF key \in DOMAIN data THEN data[key] ELSE default

\* result.update(other): the keys of other are written over result
DictUpdate(result, other) == DictMerge(result, other)

\* a from_dict that copies every key, known or not, into custom_fields
from_dict_keeps_all(data) ==
    [user_id |-> DictGet(data, "user_id", None),
     session_id |-> DictGet(data, "session_id", None),
     category |-> DictGet(data, "category", None),
     tags |-> DictGet(data, "tags", PyList(<<>>)),
     custom_fields |-> data]

\* MemoryMetadata.to_dict: the known fields that are truthy, then the custom
\* fields on top
to_dict(self) ==
    LET result == [k \in {f \in KnownFields : Truthy(self[f])} |-> self[k]]
    IN  DictUpdate(result, self.custom_fields)

\* MemoryMetadata.from_dict
from_dict(data) ==
    [user_id |-> DictGet(data, "user_id", None),
     session_id |-> DictGet(data, "session_id", None),
     category |-> DictGet(data, "category", None),
     tags |-> DictGet(data, "tags", PyList(<<>>)),
     custom_fields |-> [k \in DOMAIN data \ KnownFields |-> data[k]]]

\* MemoryMetadata.from_dict(m.to_dict()) for a metadata value m
RoundTrip(m) ==
    /\ ret' = [op |-> "from_dict(to_dict)", m |-> m, data |-> to_dict(m),
               value |-> from_dict(to_dict(m))]
    /\ UNCHANGED <<now, store, next_id, sweep, retr, schedvars, forgotten_ok,
                   prune, request>>

----------------------------------------------------------------------------
(* The HTTP layer: the /forget_memory endpoint of src/main.py, and          *)
(* AsyncMemoryBankClient._request and .forget_memory of                     *)
(* src/memorybank/client.py.  A response is its status code and its JSON    *)
(* body.  A wait is counted in units of 1 second.                           *)

\* MemoryBankConfig.retry_delay
RetryDelay == 1

PyBool(b) == [type |-> "bool", value |-> b]

\* APIError(message, status_code)
APIError(status_code) == [raised |-> "APIError", status_code |-> status_code]

Response(status_code, body) == [status_code |-> status_code, body |-> body]

\* MemoryManager.forget_memory: [store, result].  fault: collection.delete
\* raises, delete_memory logs the error and returns False
manager_forget_memory(s, memory_id, fault) ==
    IF fault THEN [store |-> s, result |-> FALSE]
    ELSE delete_memory(s, memory_id)

\* what the endpoint does once the manager has reported no success: it
\* raises HTTPException(404) inside its try, whose except Exception clause
\* catches it and raises HTTPException(500, detail=str(e))
NotDeletedResponse == Response(500, [detail |-> "404: Memory not found"])

\* POST /forget_memory: verify_api_key, then the endpoint:
\* [store, success, response]
forget_memory_endpoint(s, memory_id, key_ok, fault) ==
    IF ~key_ok
    THEN [store |-> s, success |-> FALSE,
          response |-> Response(401, [detail |-> "Invalid API key"])]
    ELSE LET r == manager_forget_memory(s, memory_id, fault)
         IN  [store |-> r.store, success |-> r.result,
              response |->
                IF r.result
                THEN Response(200, [status |-> "deleted",
                                    memory_id |-> memory_id])
                ELSE NotDeletedResponse]

\* for attempt in range(max_retries + 1)
InLoop(attempt, max_retries) == attempt < max_retries + 1

\* a test of the last attempt that never holds
LastAttempt_never(attempt, max_retries) == FALSE

\* if attempt == self.config.max_retries
LastAttempt(attempt, max_retries) == attempt = max_retries

\* _request once self._client.request has returned a response: what it
\* raises, or the JSON it returns
request_result(response) ==
    IF response.status_code = 401 THEN Raised("AuthenticationError")
    ELSE IF response.status_code >= 400 THEN APIError(response.status_code)
    ELSE [json |-> response.body]

\* client.forget_memory around _request: True when the status is "deleted",
\* False on APIError 404, any other exception goes on to the caller
client_forget_memory(result) ==
    IF "json" \in DOMAIN result
    THEN PyBool(result.json.status = "deleted")
    ELSE IF result.raised = "APIError" /\ result.status_code = 404
    THEN PyBool(FALSE)
    ELSE result

\* _request ends with result, and client.forget_memory hands value to its
\* caller.  History: what happened on the way
ClientReturn(r, result, served, success, status_code) ==
    [op |-> "client.forget_memory", value |-> client_forget_memory(result),
     result |-> result, memory_id |-> r.memory_id, key_ok |-> r.key_ok,
     max_retries |-> r.max_retries, attempts |-> r.attempts,
     waits |-> r.waits, served |-> served, success |-> success,
     status_code |-> status_code]

\* client.forget_memory(memory_id) is called: _request enters its loop
ClientForget(memory_id, max_retries, key_ok) ==
    /\ request.pc = "idle"
    /\ LET r == [IdleRequest EXCEPT !.memory_id = memory_id,
                     !.key_ok = key_ok, !.max_retries = max_retries]
       IN  IF InLoop(0, max_retries)
           THEN /\ request' = [r EXCEPT !.pc = "attempt"]
                /\ ret' = ret
           ELSE /\ request' = IdleRequest
                /\ ret' = ClientReturn(r, Raised("MemoryBankError"),
                                       FALSE, FALSE, 0)
    /\ UNCHANGED <<now, store, next_id, sweep, retr, schedvars, forgotten_ok,
                   prune>>

\* await self._client.request(...) raises httpx.RequestError
RequestTransportError ==
    /\ request.pc = "attempt"
    /\ LET r == [request EXCEPT !.attempts = @ + 1]
       IN  IF LastAttempt(r.attempt, r.max_retries)
           THEN /\ request' = IdleRequest
                /\ ret' = ClientReturn(r, Raised("MemoryBankError"),
                                       FALSE, FALSE, 0)
           ELSE /\ request' = [r EXCEPT !.pc = "sleep"]
                /\ ret' = ret
    /\ UNCHANGED <<now, store, next_id, sweep, retr, schedvars, forgotten_ok,
                   prune>>

\* await asyncio.sleep(retry_delay * (2 ** attempt)), and the loop goes on
RequestSleep ==
    /\ request.pc = "sleep"
    /\ LET r == [request EXCEPT
                    !.waits = Append(@, RetryDelay * (2 ^ request.attempt)),
                    !.attempt = @ + 1]
       IN  IF InLoop(r.attempt, r.max_retries)
           THEN /\ request' = [r EXCEPT !.pc = "attempt"]
                /\ ret' = ret
           ELSE /\ request' = IdleRequest
                /\ ret' = ClientReturn(r, Raised("MemoryBankError"),
                                       FALSE, FALSE, 0)
    /\ UNCHANGED <<now, store, next_id, sweep, retr, schedvars, forgotten_ok,
                   prune>>

\* await self._client.request(...) returns the response of the server, which
\* has run the endpoint
RequestServed(fault) ==
    /\ request.pc = "attempt"
    /\ LET r == [request EXCEPT !.attempts = @ + 1]
           e == forget_memory_endpoint(store, r.memory_id, r.key_ok, fault)
       IN  /\ store' = e.store
           /\ forgotten_ok' = IF e.success
                              THEN forgotten_ok \cup {r.memory_id}
                              ELSE forgotten_ok
           /\ ret' = ClientReturn(r, request_result(e.response),
                                  TRUE, e.success, e.response.status_code)
    /\ request' = IdleRequest
    /\ sweep' = Disturb(sweep, "none")
    /\ UNCHANGED <<now, next_id, retr, schedvars, prune>>

----------------------------------------------------------------------------
(* The specifications *)

DaysAgo(d) == TsAt(now - d * TicksPerDay)

\* Metadata a caller may pass: nothing, or the reserved keys, as in the spec's
\* hundred-day scenario
OldMetadata == [timestamp |-> DaysAgo(100), last_accessed |-> DaysAgo(100)]
\* created 95 days ago, not accessed since creation was overridden
AgedMetadata == [timestamp |-> DaysAgo(95)]
\* last accessed 100 days ago, created now
StaleMetadata == [last_accessed |-> DaysAgo(100)]
\* a timestamp that does not parse, and an importance of 5.0
BadMetadata == [timestamp |-> BadTs, importance |-> 5 * Scale]
\* a last_accessed that does not parse
BadAccessMetadata == [last_accessed |-> BadTs]

\* the text of a memory, where the text does not matter
SomeContent == "a memory"
\* texts, user ids and filters where they matter
ContentInputs == {"tea", "rain"}
UserMetadata(u) == [user_id |-> u]
UserInputs == {"A", "B"}
FilterInputs == {NoMetadata} \cup {UserMetadata(u) : u \in UserInputs}

ThresholdInputs == {DefaultThreshold}
TopKInputs == {1, 2}
WhereInputs == {NoMetadata}
\* <<forgetting_interval_hours, maintenance_interval_hours>>: the defaults,
\* and an hourly sweep with daily maintenance
IntervalInputs == {<<24, 168>>, <<1, 24>>}
KnownIds == (1..next_id) \cup {UnknownId}

\* The store under its callers and the manual decay sweep, every interleaving
\* of their steps, at one time of the clock
StoreNext ==
    \/ \E m \in {NoMetadata, OldMetadata} : Store(SomeContent, m)
    \/ \E c \in Callers, k \in TopKInputs, w \in WhereInputs :
          RetrieveCall(c, SomeContent, k, w)
    \/ \E c \in Callers : RetrieveQuery(c)
    \/ \E c \in Callers : RetrieveBump(c)
    \/ \E c \in Callers : RetrieveReturn(c)
    \/ \E id \in KnownIds : Forget(id)
    \/ \E id \in KnownIds : UpdateImportance(id, 3 * Scale)
    \/ \E t \in ThresholdInputs : RunForgettingCurveNow(t)
    \/ SweepLoad("manual")
    \/ SweepStep("manual")
    \/ SweepReturn("manual")

Spec == Init /\ [][StoreNext]_vars

\* The decay sweep over records of every kind as time passes, with the calls
\* that take one step
DecayNext ==
    \/ Tick
    \/ \E m \in {NoMetadata, OldMetadata, AgedMetadata, StaleMetadata,
                  BadMetadata, BadAccessMetadata} : Store(SomeContent, m)
    \/ \E id \in KnownIds : Forget(id)
    \/ \E id \in KnownIds, v \in {3 * Scale, Scale \div 2} :
          UpdateImportance(id, v)
    \/ \E t \in ThresholdInputs : RunForgettingCurveNow(t)
    \/ SweepLoad("manual")
    \/ SweepStep("manual")
    \/ SweepReturn("manual")

DecaySpec == Init /\ [][DecayNext]_vars

\* The scheduler: its lifecycle, its three timers and the manual trigger, over
\* a store that callers fill
SchedNext ==
    \/ Store(SomeContent, NoMetadata)
    \/ \E h \in IntervalInputs : StartScheduler(h[1], h[2])
    \/ StopScheduler
    \/ GetSchedulerStatus
    \/ \E id \in JobIds, t \in ThresholdInputs : TimerFire(id, t)
    \/ \E t \in ThresholdInputs : RunForgettingCurveNow(t)
    \/ \E s \in Slots : MaintenanceStats(s)
    \/ \E s \in Slots : SweepLoad(s)
    \/ \E s \in Slots : SweepStep(s)
    \/ \E s \in Slots : SweepReturn(s)

SchedSpec == Init /\ [][SchedNext]_vars

\* The decay sweep under storage failures: the recurring forgetting timer and
\* the manual trigger over a store whose calls may raise
FaultSlots == {"forgetting_curve_job", "manual"}

FaultNext ==
    \/ \E m \in {NoMetadata, OldMetadata} : Store(SomeContent, m)
    \/ StartScheduler(24, 168)
    \/ \E t \in ThresholdInputs : TimerFire("forgetting_curve_job", t)
    \/ \E t \in ThresholdInputs : RunForgettingCurveNow(t)
    \/ \E s \in FaultSlots : SweepLoad(s)
    \/ \E s \in FaultSlots : SweepLoadFails(s)
    \/ \E s \in FaultSlots : SweepStep(s)
    \/ \E s \in FaultSlots : SweepStepFails(s)
    \/ \E s \in FaultSlots : SweepReturn(s)

FaultSpec == Init /\ [][FaultNext]_vars

\* Store and retrieve by text and by user: every text, every filter, and the
\* embedding, the insertion and the query failing
QueryNext ==
    \/ \E x \in ContentInputs, m \in FilterInputs : Store(x, m)
    \/ \E x \in ContentInputs, m \in FilterInputs, f \in {"embed", "insert"} :
          StoreFails(x, m, f)
    \/ \E c \in Callers, q \in ContentInputs, k \in TopKInputs,
            w \in FilterInputs : RetrieveCall(c, q, k, w)
    \/ \E c \in Callers, f \in {"embed", "query"} : RetrieveRaises(c, f)
    \/ \E c \in Callers : RetrieveQuery(c)
    \/ \E c \in Callers : RetrieveBump(c)
    \/ \E c \in Callers : RetrieveReturn(c)
    \/ \E id \in KnownIds : Forget(id)

QuerySpec == Init /\ [][QueryNext]_vars

\* Pruning by stored importance, among calls that set the importance below,
\* at and above the threshold and that forget records, over a store whose
\* calls may raise
PruneImportanceInputs == {DefaultThreshold \div 2, DefaultThreshold, 3 * Scale}

PruneNext ==
    \/ Store(SomeContent, NoMetadata)
    \/ \E id \in KnownIds, v \in PruneImportanceInputs : UpdateImportance(id, v)
    \/ \E id \in KnownIds : Forget(id)
    \/ \E t \in ThresholdInputs : PruneCall(t)
    \/ PruneLoad
    \/ PruneLoadFails
    \/ PruneStep
    \/ PruneStepFails
    \/ PruneReturn

PruneSpec == Init /\ [][PruneNext]_vars

\* Every operation that writes to a record it did not create: the access
\* bump, updateImportance, the prune and the decay sweep, in every
\* interleaving, over records that carry a text and metadata of the caller
FrameNext ==
    \/ Store("tea", UserMetadata("A"))
    \/ Store("rain", DictMerge(OldMetadata, UserMetadata("B")))
    \/ \E c \in Callers : RetrieveCall(c, "tea", 2, NoMetadata)
    \/ \E c \in Callers : RetrieveQuery(c)
    \/ \E c \in Callers : RetrieveBump(c)
    \/ \E c \in Callers : RetrieveReturn(c)
    \/ \E id \in KnownIds : UpdateImportance(id, DefaultThreshold \div 2)
    \/ \E t \in ThresholdInputs : PruneCall(t)
    \/ PruneLoad
    \/ PruneStep
    \/ PruneReturn
    \/ \E t \in ThresholdInputs : RunForgettingCurveNow(t)
    \/ SweepLoad("manual")
    \/ SweepStep("manual")
    \/ SweepReturn("manual")

FrameSpec == Init /\ [][FrameNext]_vars

\* Every way a record is removed (forget, prune, the decay sweep) among the
\* writes that may come after it: the access bump of a retrieve that read
\* the record earlier, and updateImportance by a caller and by the sweep
RemovalNext ==
    \/ \E m \in {NoMetadata, OldMetadata} : Store(SomeContent, m)
    \/ \E c \in Callers : RetrieveCall(c, SomeContent, 2, NoMetadata)
    \/ \E c \in Callers : RetrieveQuery(c)
    \/ \E c \in Callers : RetrieveBump(c)
    \/ \E c \in Callers : RetrieveReturn(c)
    \/ \E id \in 1..next_id : Forget(id)
    \/ \E id \in 1..next_id : UpdateImportance(id, DefaultThreshold \div 2)
    \/ \E t \in ThresholdInputs : PruneCall(t)
    \/ PruneLoad
    \/ PruneStep
    \/ PruneReturn
    \/ \E t \in ThresholdInputs : RunForgettingCurveNow(t)
    \/ SweepLoad("manual")
    \/ SweepStep("manual")
    \/ SweepReturn("manual")

RemovalSpec == Init /\ [][RemovalNext]_vars

\* The SDK client forgetting records through the HTTP layer: with and
\* without a valid key, with every number of retries, the transport and the
\* deletion failing at any attempt.  A request in flight gets its answer or
\* its transport error (httpx applies the configured timeout) and a sleep
\* ends, hence the fairness of the steps of _request.
MaxRetriesInputs == {0, 1, 2}

RequestStep ==
    \/ RequestTransportError
    \/ RequestSleep
    \/ \E fault \in BOOLEAN : RequestServed(fault)

ClientNext ==
    \/ Store(SomeContent, NoMetadata)
    \/ \E id \in KnownIds, n \in MaxRetriesInputs, k \in BOOLEAN :
          ClientForget(id, n, k)
    \/ RequestTransportError
    \/ RequestSleep
    \/ \E fault \in BOOLEAN : RequestServed(fault)

ClientSpec == Init /\ [][ClientNext]_vars /\ WF_vars(RequestStep)

\* The scheduler when its start() may raise: start, stop and status in any
\* order, the recurring forgetting timer and its sweep
StartFaultNext ==
    \/ \E m \in {NoMetadata, OldMetadata} : Store(SomeContent, m)
    \/ \E h \in IntervalInputs : StartScheduler(h[1], h[2])
    \/ \E h \in IntervalInputs : StartSchedulerFails(h[1], h[2])
    \/ StopScheduler
    \/ GetSchedulerStatus
    \/ \E t \in ThresholdInputs : TimerFire("forgetting_curve_job", t)
    \/ SweepLoad("forgetting_curve_job")
    \/ SweepStep("forgetting_curve_job")
    \/ SweepReturn("forgetting_curve_job")

StartFaultSpec == Init /\ [][StartFaultNext]_vars

\* Configurations: every choice of the keys and providers, with top_k and
\* the threshold inside and outside their ranges
ConfigInputs ==
    {[api_key |-> k, llm_provider |-> lp, openai_api_key |-> ok,
      anthropic_api_key |-> ak, google_api_key |-> gk,
      embedding_provider |-> ep, default_top_k |-> n,
      importance_threshold |-> t, enable_local_storage |-> FALSE] :
        k \in {"", "test-key"}, lp \in {"claude", "openai", "gemini"},
        ok \in {"", "openai-key"}, ak \in {"", "claude-key"},
        gk \in {"", "google-key"}, ep \in {"openai", "huggingface"},
        n \in {0, 5},
        t \in {0 - DefaultThreshold, DefaultThreshold, Scale + Scale \div 2}}
    \cup {[DefaultConfig EXCEPT !.enable_local_storage = TRUE]}

ConfigNext == \E config \in ConfigInputs : Validate(config)

ConfigSpec == Init /\ [][ConfigNext]_vars

\* Metadata values: each known field unset, empty or set, and custom fields
\* none, of other names, and of the names of known fields
CustomFieldsInputs ==
    {NoMetadata,
     [extra |-> PyStr("value")],
     [extra |-> PyStr("value"), priority |-> PyInt(5)],
     [user_id |-> PyStr("user456")],
     [tags |-> PyList(<<"music">>), source |-> PyStr("chat")]}

MetadataInputs ==
    {[user_id |-> u, session_id |-> s, category |-> c, tags |-> t,
      custom_fields |-> f] :
        u \in {None, PyStr(""), PyStr("user123")},
        s \in {None, PyStr("session456")},
        c \in {None, PyStr("test")},
        t \in {PyList(<<>>), PyList(<<"a", "b">>)},
        f \in CustomFieldsInputs}

MetadataNext == \E m \in MetadataInputs : RoundTrip(m)

MetadataSpec == Init /\ [][MetadataNext]_vars

\* Sweep after sweep at one time of the clock, over records that are new,
\* a day old, and thirty days old but accessed today; the sweeps are the
\* recurring ones, so a sweep that can start does start and one that has
\* started runs to its end
DayOldMetadata == [timestamp |-> DaysAgo(1), last_accessed |-> DaysAgo(1)]
MonthOldMetadata == [timestamp |-> DaysAgo(30)]
\* created one day ago, accessed today: the slowest decay there is
YesterdayMetadata == [timestamp |-> DaysAgo(1)]
RepeatThresholdInputs == {DefaultThreshold, Scale \div 2}

RepeatNext ==
    \/ \E m \in {NoMetadata, DayOldMetadata, MonthOldMetadata,
                  YesterdayMetadata} : Store(SomeContent, m)
    \/ \E t \in RepeatThresholdInputs : RunForgettingCurveNow(t)
    \/ SweepLoad("manual")
    \/ SweepStep("manual")
    \/ SweepReturn("manual")

RepeatSpec ==
    /\ Init
    /\ [][RepeatNext]_vars
    /\ WF_vars(\E t \in RepeatThresholdInputs : RunForgettingCurveNow(t))
    /\ WF_vars(SweepLoad("manual"))
    /\ WF_vars(SweepStep("manual"))
    /\ WF_vars(SweepReturn("manual"))

\* Retrieves and sweeps, in every interleaving and as time passes, over
\* records stored as they come and records whose caller gave a last_accessed
\* one day ahead of the clock
AheadMetadata == [last_accessed |-> DaysAgo(0 - 1)]

AccessNext ==
    \/ Tick
    \/ \E m \in {NoMetadata, AheadMetadata} : Store(SomeContent, m)
    \/ \E c \in Callers, k \in TopKInputs :
          RetrieveCall(c, SomeContent, k, NoMetadata)
    \/ \E c \in Callers : RetrieveQuery(c)
    \/ \E c \in Callers : RetrieveBump(c)
    \/ \E c \in Callers : RetrieveReturn(c)
    \/ \E t \in ThresholdInputs : RunForgettingCurveNow(t)
    \/ SweepLoad("manual")
    \/ SweepStep("manual")
    \/ SweepReturn("manual")

AccessSpec == Init /\ [][AccessNext]_vars

\* The score as a function: calls of calculate_retention_strength over
\* records created today or fifty days ago and last accessed from a thousand
\* days ahead of the clock to a hundred days behind it, half days included
ScoreCreatedInputs == {TsAt(now), TsAt(now - 50 * TicksPerDay)}
ScoreAccessedInputs ==
    {TsAt(now - t) : t \in {0 - 1000 * TicksPerDay, 0 - 2 * TicksPerDay, -3,
                            -2, -1, 0, 1, 2, 3, 4, 6, 20, 100 * TicksPerDay}}
ScoreCountInputs == {0, 1, 4}
ScoreImportanceInputs == {0, Scale \div 2, Scale, 2 * Scale}

\* one call of calculate_retention_strength, with what it was given
ScoreCall(timestamp, last_accessed, access_count, base_importance) ==
    /\ ret' = [op |-> "calculate_retention_strength",
               timestamp |-> timestamp, last_accessed |-> last_accessed,
               access_count |-> access_count,
               base_importance |-> base_importance,
               value |-> calculate_retention_strength(timestamp, last_accessed,
                             access_count, base_importance, now)]
    /\ UNCHANGED <<now, store, next_id, sweep, retr, schedvars, forgotten_ok,
                   prune, request>>

ScoreNext ==
    \E ts \in ScoreCreatedInputs, la \in ScoreAccessedInputs,
       ac \in ScoreCountInputs, b \in ScoreImportanceInputs :
        ScoreCall(ts, la, ac, b)

ScoreSpec == Init /\ [][ScoreNext]_vars

\* Retrieve at its edges: a top_k of zero, a store that is empty or was
\* emptied, next to the ordinary calls
EdgeTopKInputs == {0, 1, 2}

EdgeNext ==
    \/ \E x \in ContentInputs : Store(x, NoMetadata)
    \/ \E c \in Callers, q \in ContentInputs, k \in EdgeTopKInputs :
          RetrieveCall(c, q, k, NoMetadata)
    \/ \E c \in Callers : RetrieveQuery(c)
    \/ \E c \in Callers : RetrieveRejected(c)
    \/ \E c \in Callers : RetrieveBump(c)
    \/ \E c \in Callers : RetrieveReturn(c)
    \/ \E id \in KnownIds : Forget(id)

EdgeSpec == Init /\ [][EdgeNext]_vars

----------------------------------------------------------------------------
(* Claims *)

Executing(s) == sweep[s].pc \in {"load", "loop"}
InRange(importance) == 0 <= importance /\ importance <= MaxImportance
Completes(s) == sweep[s].pc = "loop" /\ sweep'[s].pc \in {"done", "stats_after"}
Returned(c) == {retr[c].memories[k] : k \in 1..Len(retr[c].memories)}
Finishes(s) ==
    /\ sweep[s].pc \in {"load", "loop"}
    /\ sweep'[s].pc \in {"done", "stats_after"}

\* C1: at most one decay sweep is executing at any time: a timer or the manual
\* trigger that fires while a sweep is in flight starts no second sweep.
C1_SingleSweep == Cardinality({s \in Slots : Executing(s)}) <= 1

C3_ImportanceInRange ==
    \A id \in DOMAIN store : InRange(store[id].importance)

\* C4: when a decay sweep completes, every record it processed that is still
\* in the store has 0.0 <= importance <= 2.0.
C4_InRangeAfterSweep ==
    [][\A s \in Slots : Completes(s) =>
          \A id \in (sweep'[s].kept \cup sweep'[s].gone) \cap DOMAIN store' :
              InRange(store'[id].importance)]_vars

C7_DeletionFinal ==
    \A c \in Callers :
        /\ Returned(c) \cap retr[c].forgot_at_call = {}
        /\ \A k \in 1..Len(retr[c].todo) :
              retr[c].todo[k].memory_id \notin retr[c].forgot_at_call

\* C7 witness: a retrieve called after a stored record was forgotten has
\* returned another record.
C7_Witness ==
    \E c \in Callers :
        /\ retr[c].pc = "done"
        /\ retr[c].forgot_at_call \cap Ids # {}
        /\ retr[c].memories # <<>>

\* C8: forget(id) on an id that is not in the store returns false and leaves
\* the store unchanged.
C8_ForgetMissingIsFalse ==
    [][\A id \in KnownIds :
          (Forget(id) /\ id \notin DOMAIN store)
              => (ret'.value = FALSE /\ store' = store)]_vars

\* C9: start() while running changes neither the state nor the timers, which
\* are the three jobs; stop() while stopped changes nothing.
C9_StartStopIdempotent ==
    /\ [](is_running => DOMAIN jobs = JobIds)
    /\ [][/\ \A h \in IntervalInputs :
               (is_running /\ StartScheduler(h[1], h[2]))
                   => UNCHANGED <<is_running, sched_state, jobs, sweep>>
          /\ (~is_running /\ StopScheduler)
                   => UNCHANGED <<is_running, sched_state, jobs, sweep>>]_vars

\* C9 witness: start() was called on a running scheduler.
C9_Witness ==
    /\ ret.op = "start_scheduler"
    /\ ret.value = "Scheduler is already running"
    /\ is_running
    /\ DOMAIN jobs = JobIds

\* C10: status() reports stopped and no jobs whenever the scheduler is not
\* running, and running with the scheduled jobs whenever it is running.
C10_StatusAgrees ==
    [][GetSchedulerStatus =>
          LET v == ret'.value
          IN  /\ sched_state = "stopped" =>
                    (v.status = "stopped" /\ v.jobs = {})
              /\ sched_state = "running" =>
                    /\ v.status = "running"
                    /\ {j.id : j \in v.jobs} = DOMAIN jobs
                    /\ \A j \in v.jobs : j.trigger = jobs[j.id].trigger]_vars

\* C10 witness: status() has reported the three jobs of a running scheduler.
C10_Witness ==
    /\ ret.op = "get_scheduler_status"
    /\ ret.value.status = "running"
    /\ {j.id : j \in ret.value.jobs} = JobIds

\* C11: the initial timer is one-shot: once it has fired it is no longer among
\* the scheduled timers, so it does not fire again while the scheduler runs.
C11_InitialOneShot ==
    [][\A t \in ThresholdInputs :
          TimerFire("initial_forgetting_job", t)
              => "initial_forgetting_job" \notin DOMAIN jobs']_vars

\* C12: run_forgetting_curve_now hands its caller the result of the sweep it
\* ran, {updated, forgotten, total_processed}, and neither the call nor the
\* return changes the timers.
C12_ManualReturnsResult ==
    [][/\ SweepReturn("manual") =>
             /\ ret'.value = [error |-> FALSE,
                              updated |-> sweep["manual"].updated,
                              forgotten |-> sweep["manual"].forgotten,
                              total_processed |-> sweep["manual"].updated
                                                  + sweep["manual"].forgotten]
             /\ UNCHANGED schedvars
       /\ \A t \in ThresholdInputs :
             RunForgettingCurveNow(t) => UNCHANGED schedvars]_vars

\* C13: a sweep in which a storage call failed returns the zero result, and
\* the failure changes neither the scheduler's state nor its timers.
C13_FailedSweepIsZero ==
    [][\A s \in Slots :
         /\ (Finishes(s) /\ sweep'[s].failed # "no") =>
               LET r == SweepResult(sweep'[s])
               IN  r.updated = 0 /\ r.forgotten = 0 /\ r.total_processed = 0
         /\ (SweepLoadFails(s) \/ SweepStepFails(s)) => UNCHANGED schedvars]_vars

\* C14: the result of a sweep that returns without error counts what the
\* sweep did: total_processed = updated + forgotten = the records loaded,
\* forgotten = the records it removed, updated = the records it persisted.
C14_CountsAreActual ==
    [][\A s \in Slots :
         (Finishes(s) /\ ~SweepResult(sweep'[s]).error) =>
             LET r == SweepResult(sweep'[s])
             IN  /\ r.total_processed = r.updated + r.forgotten
                 /\ r.total_processed = sweep'[s].loaded
                 /\ r.forgotten = sweep'[s].removed
                 /\ r.updated = sweep'[s].persisted]_vars

\* the record the claimed side effect of a retrieval makes of record m
Bumped(m) ==
    [m EXCEPT !.access_count = m.access_count + 1,
              !.last_accessed = TsAt(now),
              !.importance =
                  Min(m.importance
                        + Min(BoostPerAccess * (m.access_count + 1), MaxBoost),
                      MaxImportance)]

C16_AccessedAfterCreated ==
    \A id \in DOMAIN store :
        (store[id].timestamp.ok /\ store[id].last_accessed.ok)
            => store[id].last_accessed.t >= store[id].timestamp.t

\* C17: the record a store() creates has importance 1.0, accessCount 0 and
\* createdAt = lastAccessedAt = now, whatever metadata the caller gave.
C17_StoreDefaults ==
    [][next_id' = next_id + 1 =>
          LET r == store'[next_id']
          IN  /\ r.importance = InitialImportance
              /\ r.access_count = 0
              /\ r.timestamp = TsAt(now)
              /\ r.last_accessed = TsAt(now)]_vars

\* the ids of the results a query has just handed to the retrieve of caller c
Results(c) == {retr'[c].todo[k].memory_id : k \in 1..Len(retr'[c].todo)}
\* the stored entries whose text is the query of caller c and which its
\* filter lets through
SameText(c) ==
    {id \in DOMAIN store : /\ store[id].document = retr[c].query
                           /\ Matches(store[id], retr[c].where)}

\* C18: a store() whose embedding or insertion fails hands the error to its
\* caller, returns no id and leaves the store as it was; a retrieve whose
\* embedding or query fails hands the error to its caller and changes no
\* record.
C18_ErrorsPropagate ==
    [][/\ \A x \in ContentInputs, m \in FilterInputs, f \in {"embed", "insert"} :
             StoreFails(x, m, f) =>
                 /\ ret' = [op |-> "store_memory", value |-> Raised(f)]
                 /\ store' = store
       /\ \A c \in Callers, f \in {"embed", "query"} :
             RetrieveRaises(c, f) =>
                 /\ ret' = [op |-> "retrieve_memory", value |-> Raised(f)]
                 /\ store' = store]_vars

\* C18 witness: a store() on a store of one record has failed at the
\* insertion, and the store still has that one record.
C18_Witness ==
    /\ ret = [op |-> "store_memory", value |-> Raised("insert")]
    /\ Cardinality(DOMAIN store) = 1

\* C19: a retrieve filtered by a user_id is handed, and returns, only records
\* stored with that user_id.
C19_FilterIsolation ==
    \A c \in Callers :
        "user_id" \in DOMAIN retr[c].where =>
            /\ \A k \in 1..Len(retr[c].todo) :
                  /\ "user_id" \in DOMAIN retr[c].todo[k].metadata
                  /\ retr[c].todo[k].metadata.user_id = retr[c].where.user_id
            /\ \A id \in Returned(c) \cap DOMAIN store :
                  /\ "user_id" \in DOMAIN store[id]
                  /\ store[id].user_id = retr[c].where.user_id

\* C19 witness: a retrieve filtered by user A with top_k 2 has returned a
\* record while a record of user B is in the store.
C19_Witness ==
    \E c \in Callers :
        /\ retr[c].pc = "done"
        /\ retr[c].where = UserMetadata("A")
        /\ retr[c].top_k = 2
        /\ retr[c].memories # <<>>
        /\ \E id \in DOMAIN store :
              "user_id" \in DOMAIN store[id] /\ store[id].user_id = "B"

C21_EmptyRetrieve ==
    [][\A c \in Callers :
          (/\ retr[c].pc = "embed"
           /\ retr'[c].pc # "embed"
           /\ (retr[c].top_k = 0 \/ DOMAIN store = {}))
              => /\ retr'[c].pc = "done"
                 /\ retr'[c].memories = <<>>
                 /\ store' = store
                 /\ ret' = ret]_vars

\* two calls of the score in a row that differ in last_accessed only
SameButAccess ==
    /\ ret.op = "calculate_retention_strength"
    /\ ret'.op = "calculate_retention_strength"
    /\ ret'.timestamp = ret.timestamp
    /\ ret'.access_count = ret.access_count
    /\ ret'.base_importance = ret.base_importance

\* C26: with createdAt, accessCount and baseImportance >= 0 held fixed, the
\* score does not increase as daysSinceAccess increases, the special case
\* daysSinceAccess = 0 included.
C26_ScoreMonotone ==
    [][(/\ SameButAccess
        /\ DaysBetween(ret'.last_accessed.t, now)
              >= DaysBetween(ret.last_accessed.t, now))
          => ret'.value <= ret.value]_vars

C25_PruneExact ==
    [][/\ PruneStep =>
             LET id == Head(prune.todo).memory_id
             IN  /\ id \in DOMAIN store => store[id].importance < prune.thr
                 /\ id \notin DOMAIN store'
                 /\ \A i \in DOMAIN store \ {id} :
                       i \in DOMAIN store' /\ store'[i] = store[i]
       /\ PruneLoad =>
             {prune'.todo[k].memory_id : k \in 1..Len(prune'.todo)}
                 = {i \in DOMAIN store : store[i].importance < prune.thr}
       /\ PruneReturn => ret'.value = [deleted_count |-> prune.removed]]_vars

\* the fields an operation on an existing record may write
Mutable == {"importance", "access_count", "last_accessed"}

\* C23: for as long as a record exists, its id, content, createdAt and the
\* metadata of its caller stay as they are: the access bump, updateImportance,
\* the prune and the decay sweep write importance, accessCount and
\* lastAccessedAt only.
C23_ImmutableFields ==
    [][\A id \in DOMAIN store \cap DOMAIN store' :
          /\ DOMAIN store'[id] = DOMAIN store[id]
          /\ \A k \in DOMAIN store[id] \ Mutable :
                store'[id][k] = store[id][k]]_vars

\* C23 witness: a record with the text and the user_id it was stored with
\* has been bumped by a retrieve and written by a sweep, updateImportance has
\* returned true, and a prune has deleted a record.
C23_Witness ==
    /\ prune.removed > 0
    /\ ret = [op |-> "update_memory_importance", value |-> TRUE]
    /\ \E id \in sweep["manual"].kept \cap DOMAIN store :
          /\ store[id].access_count = 1
          /\ store[id].document = "tea"
          /\ store[id].user_id = "A"

\* C27: a start() on a scheduler that is not running, after a stop() as well
\* as the first time, takes it to running with exactly the three timers
\* (initial, recurring forgetting, maintenance) scheduled, and status() then
\* reports running.
C27_Restart ==
    [][\A h \in IntervalInputs :
          (StartScheduler(h[1], h[2]) /\ ~is_running) =>
              /\ is_running'
              /\ sched_state' = "running"
              /\ DOMAIN jobs' = JobIds
              /\ jobs'["forgetting_curve_job"].trigger = HoursTrigger(h[1])
              /\ jobs'["memory_maintenance_job"].trigger = HoursTrigger(h[2])
              /\ get_scheduler_status'.status = "running"
              /\ {j.id : j \in get_scheduler_status'.jobs} = JobIds]_vars

\* C27 witness: a start() right after a stop() has started the scheduler
\* again, with the three timers.
C27_Witness ==
    /\ ret.op = "start_scheduler"
    /\ ret.after_stop
    /\ ret.value = "Memory scheduler started"
    /\ is_running
    /\ sched_state = "running"
    /\ DOMAIN jobs = JobIds

\* C29: validate() on a configuration that has api_key set and is otherwise
\* default raises ConfigurationError 'default_top_k must be at least 1' when
\* default_top_k < 1, and ConfigurationError 'importance_threshold must be
\* between 0 and 1' when importance_threshold is outside [0, 1].
C29_ValidateNumericRules ==
    ret.op = "validate" =>
        /\ (/\ ret.config = [DefaultConfig EXCEPT
                                !.api_key = "test-key",
                                !.default_top_k = ret.config.default_top_k]
            /\ ret.config.default_top_k < 1)
              => ret.value
                   = ConfigurationError("default_top_k must be at least 1")
        /\ (/\ ret.config = [DefaultConfig EXCEPT
                                !.api_key = "test-key",
                                !.importance_threshold =
                                    ret.config.importance_threshold]
            /\ ~(0 <= ret.config.importance_threshold
                  /\ ret.config.importance_threshold <= Scale))
              => ret.value = ConfigurationError(
                                "importance_threshold must be between 0 and 1")

\* what the claim says of the two conversions apart from the round trip:
\* to_dict has a known field only if it is set (or a custom field has its
\* name), it has every custom field as a key of its own, and from_dict puts
\* every key but the four known ones into custom_fields
Flattens ==
    /\ \A k \in KnownFields :
          k \in DOMAIN ret.data
              <=> (Truthy(ret.m[k]) \/ k \in DOMAIN ret.m.custom_fields)
    /\ \A k \in DOMAIN ret.m.custom_fields :
          k \in DOMAIN ret.data /\ ret.data[k] = ret.m.custom_fields[k]
    /\ DOMAIN ret.value.custom_fields = DOMAIN ret.data \ KnownFields
    /\ \A k \in DOMAIN ret.value.custom_fields :
          ret.value.custom_fields[k] = ret.data[k]

\* C30 as stated: for every metadata value m, from_dict(m.to_dict()) equals
\* m; to_dict omits the unset known fields and flattens custom_fields, and
\* from_dict puts every other key into custom_fields.
C30_MetadataRoundTrip ==
    ret.op = "from_dict(to_dict)" => (ret.value = ret.m /\ Flattens)

\* C30 amended: from_dict(m.to_dict()) equals m for every m whose user_id,
\* session_id and category are None or a non-empty string and whose
\* custom_fields has none of the names user_id, session_id, category and
\* tags; the conversions omit, flatten and collect as stated for every m.
C30_RoundTripOfClean ==
    ret.op = "from_dict(to_dict)" =>
        /\ (/\ \A k \in KnownFields \ {"tags"} :
                  ret.m[k] = None \/ Truthy(ret.m[k])
            /\ DOMAIN ret.m.custom_fields \cap KnownFields = {})
              => ret.value = ret.m
        /\ Flattens

\* C30 witness: a metadata value with a user_id, a category, tags and two
\* custom fields has come back from its dictionary as it was.
C30_Witness ==
    /\ ret.op = "from_dict(to_dict)"
    /\ ret.m.user_id = PyStr("user123")
    /\ ret.m.session_id = None
    /\ ret.m.tags = PyList(<<"a", "b">>)
    /\ DOMAIN ret.m.custom_fields = {"extra", "priority"}
    /\ DOMAIN ret.data = {"user_id", "category", "tags", "extra", "priority"}
    /\ ret.value = ret.m

\* whether createdAt or lastAccessedAt of a snapshot entry is malformed
Malformed(entry) ==
    ~entry.metadata.timestamp.ok \/ ~entry.metadata.last_accessed.ok

\* C28: for a record whose createdAt or lastAccessedAt is malformed the score
\* is the record's importance, unchanged, and nothing is raised: the sweep
\* goes on to the next record, and when it is through it has processed every
\* record it loaded and its result is no error result.
C28_MalformedKeepsBase ==
    /\ [](\A s \in Slots :
             (sweep[s].pc = "loop" /\ Malformed(Head(sweep[s].todo)))
                 => sweep[s].score = Head(sweep[s].todo).metadata.importance)
    /\ [][\A s \in Slots :
            /\ (SweepStep(s) /\ Malformed(Head(sweep[s].todo))) =>
                  /\ sweep'[s].todo = Tail(sweep[s].todo)
                  /\ sweep'[s].failed = "no"
                  /\ sweep'[s].updated + sweep'[s].forgotten
                        = sweep[s].updated + sweep[s].forgotten + 1
            /\ Finishes(s) =>
                  /\ ~SweepResult(sweep'[s]).error
                  /\ SweepResult(sweep'[s]).total_processed
                        = sweep'[s].loaded]_vars

\* C28 witness: a sweep over a record with a malformed createdAt and one with
\* a malformed lastAccessedAt is through: it processed both and both have
\* the importance they had.
C28_Witness ==
    /\ sweep["manual"].pc = "done"
    /\ sweep["manual"].loaded = 2
    /\ sweep["manual"].kept = DOMAIN store
    /\ \E i, j \in DOMAIN store :
          /\ ~store[i].timestamp.ok
          /\ store[i].importance = 5 * Scale
          /\ ~store[j].last_accessed.ok
          /\ store[j].timestamp.ok
          /\ store[j].importance = InitialImportance

\* whether a snapshot entry has well-formed timestamps that are not in the
\* future and an importance in [0, 2]
Regular(entry) ==
    /\ ~Malformed(entry)
    /\ entry.metadata.timestamp.t <= now
    /\ entry.metadata.last_accessed.t <= now
    /\ InRange(entry.metadata.importance)

DayOld(metadata) ==
    /\ metadata.timestamp.ok
    /\ metadata.last_accessed.ok
    /\ DaysBetween(metadata.timestamp.t, now) >= 1

\* whether it was created and last accessed less than one day ago
Fresh(metadata) ==
    /\ metadata.timestamp.ok
    /\ metadata.last_accessed.ok
    /\ DaysBetween(metadata.timestamp.t, now) = 0
    /\ DaysBetween(metadata.last_accessed.t, now) = 0

C33_AccessMonotone ==
    [][/\ \A id \in DOMAIN store \cap DOMAIN store' :
             /\ store'[id].access_count >= store[id].access_count
             /\ (store[id].last_accessed.ok /\ store'[id].last_accessed.ok)
                   => store'[id].last_accessed.t >= store[id].last_accessed.t
       /\ \A s \in Slots : SweepStep(s) =>
             \A id \in DOMAIN store \cap DOMAIN store' :
                 /\ store'[id].access_count = store[id].access_count
                 /\ store'[id].last_accessed = store[id].last_accessed]_vars

\* C34: a retrieve writes only to records it returns: its call, its query
\* and its return write nothing, each bump writes to one record of the
\* result list and leaves every other record as it is, and no step of it
\* changes the set of ids in the store.
C34_RetrieveWritesResultsOnly ==
    [][\A c \in Callers :
          /\ (\/ \E q \in ContentInputs, k \in TopKInputs, w \in FilterInputs :
                    RetrieveCall(c, q, k, w)
              \/ RetrieveQuery(c)
              \/ RetrieveReturn(c)) => store' = store
          /\ RetrieveBump(c) =>
                LET id == Head(retr[c].todo).memory_id
                IN  /\ id \in Returned(c)
                    /\ DOMAIN store' = DOMAIN store
                    /\ \A i \in DOMAIN store \ {id} : store'[i] = store[i]
          /\ Returned(c) \subseteq {retr'[c].memories[k] :
                                       k \in 1..Len(retr'[c].memories)}
                \/ retr'[c].pc = "idle"]_vars

\* C34 witness: a retrieve filtered by user A has returned and bumped one
\* record, and a record of user B, which the filter kept out, has never
\* been accessed.
C34_Witness ==
    \E c \in Callers :
        /\ retr[c].pc = "done"
        /\ retr[c].where = UserMetadata("A")
        /\ \E id \in Returned(c) \cap DOMAIN store :
              store[id].access_count = 1
        /\ \E i \in DOMAIN store \ Returned(c) :
              /\ "user_id" \in DOMAIN store[i]
              /\ store[i].user_id = "B"
              /\ store[i].access_count = 0
              /\ store[i].last_accessed = store[i].timestamp

\* the ids store_memory has issued that the store no longer holds: each was
\* removed by forget, by the prune or by a decay sweep
Removed == (1..next_id) \ DOMAIN store

\* C35: no resurrection: an id that was issued and has been removed from the
\* store is in the store after no step, whichever write comes after the
\* removal (an access bump from an earlier query result, updateImportance by
\* a caller or by a sweep).
C35_NoResurrection ==
    [][Removed \subseteq (1..next_id') \ DOMAIN store']_vars

\* C35 witness: a write has come after the removal and the id is still
\* absent: a caller's updateImportance of an issued id has returned False,
\* a sweep has issued an update for an id of its snapshot that the store no
\* longer held, and that id is not in the store.
C35_Witness ==
    /\ ret.op = "update_memory_importance"
    /\ ret.value = FALSE
    /\ sweep["manual"].updated > sweep["manual"].persisted
    /\ (sweep["manual"].kept \cap Removed) # {}

\* the score of the fields the store holds for the id now
StoredScore(id) ==
    calculate_retention_strength(store[id].timestamp, store[id].last_accessed,
                                 store[id].access_count, store[id].importance,
                                 now)

\* C36: a decay sweep removes a record only if the score of the fields the
\* store holds for it at that moment is below the sweep's threshold; a
\* record bumped by a retrieve after the sweep loaded its snapshot is not
\* removed on its fields of before the bump.
C36_DeletesOnCurrentScore ==
    [][\A s \in Slots :
          (sweep[s].pc = "loop" /\ sweep'[s].removed = sweep[s].removed + 1)
          => BelowThreshold(StoredScore(Head(sweep[s].todo).memory_id),
                            sweep[s].thr)]_vars

\* C37: _request ends after at most max_retries + 1 HTTP attempts.  It goes
\* on to a further attempt only after a transport error, having slept
\* retry_delay * 2^attempt; a transport error at the last attempt raises
\* MemoryBankError; a response with status 401 raises AuthenticationError
\* and one with another status >= 400 raises APIError, with no further
\* attempt.
C37_RequestTerminates ==
    /\ [](/\ request.attempts <= request.max_retries + 1
          /\ ret.op = "client.forget_memory"
                => ret.attempts <= ret.max_retries + 1)
    /\ (request.pc # "idle") ~> (request.pc = "idle")
    /\ [][/\ (request.pc # "idle" /\ request' # request
                /\ request'.pc = "attempt")
                => /\ request.pc = "sleep"
                   /\ request'.attempt = request.attempt + 1
                   /\ request'.attempts = request.attempt + 1
                   /\ request'.waits =
                        Append(request.waits,
                               RetryDelay * (2 ^ request.attempt))
          /\ (request' # request /\ request'.pc = "sleep")
                => /\ RequestTransportError
                   /\ request.attempt < request.max_retries
          /\ (RequestTransportError
                /\ request.attempt = request.max_retries)
                => /\ request'.pc = "idle"
                   /\ ret'.result = Raised("MemoryBankError")
                   /\ ret'.attempts = request.max_retries + 1
          /\ \A fault \in BOOLEAN : RequestServed(fault)
                => /\ request'.pc = "idle"
                   /\ ret'.attempts = request.attempts + 1
                   /\ ret'.status_code = 401
                        => ret'.result = Raised("AuthenticationError")
                   /\ (ret'.status_code >= 400 /\ ret'.status_code # 401)
                        => ret'.result = APIError(ret'.status_code)
                   /\ ret'.status_code < 400
                        => "json" \in DOMAIN ret'.result]_vars

\* C37 witness: with max_retries 2, the transport failed three times: the
\* call has ended with MemoryBankError after 3 attempts and waits of 1 and
\* 2 delays.
C37_Witness ==
    /\ ret.op = "client.forget_memory"
    /\ ret.max_retries = 2
    /\ ret.attempts = 3
    /\ ret.waits = <<1, 2>>
    /\ ret.result = Raised("MemoryBankError")

\* C38: when the memory manager reports that the id was not deleted, the
\* /forget_memory endpoint answers 404 and the client's forget_memory
\* returns False and does not raise.
C38_NotDeletedIs404 ==
    (/\ ret.op = "client.forget_memory"
     /\ ret.served
     /\ ret.key_ok
     /\ ~ret.success)
    => /\ ret.status_code = 404
       /\ ret.value = PyBool(FALSE)

\* C39: is_running agrees with the timers in every reachable state, also
\* after a start or a stop that failed: while is_running is false no timer
\* job is registered and none can fire, and while it is true the scheduler
\* runs with its three timer jobs.
C39_FlagAgreesWithTimers ==
    /\ ~is_running => /\ DOMAIN jobs = {}
                      /\ \A id \in JobIds : ~MayRun(id)
    /\ is_running => /\ sched_state = "running"
                     /\ DOMAIN jobs = JobIds

====
